---------------------------- MODULE Spec2Model ----------------------------
(***************************************************************************)
(* Model of lyncs_io/mpi_io.py: the domain decomposition (Decomposition,   *)
(* Cartesian) and the collective file channel (MpiIO).                     *)
(*                                                                         *)
(* Three specifications share the module:                                  *)
(*   Spec       one worker's MpiIO object: file_open, load, save,          *)
(*              file_close in any order;                                   *)
(*   SpecSplit  direct calls of Decomposition.decompose(domain, workers,   *)
(*              id) with explicit, defaulted and ill-typed arguments;      *)
(*   SpecGroup  every worker of a process group calls decompose(domain)    *)
(*              on its own decomposition object.                           *)
(*                                                                         *)
(* Python values that may be None or of a non-integer type are records     *)
(* [t |-> "int" | "float" | "none", v |-> number].  Exceptions are the     *)
(* err field of a result ("none" when the call returns).                   *)
(***************************************************************************)
EXTENDS Integers, Sequences, FiniteSets

VARIABLES
    comm,       \* the communicator: [kind, size, topo]
    rank,       \* rank of the worker that owns the object under test
    typedict,   \* which type dictionary the MPI module exposes
    handler,    \* MpiIO.handler: 0 is None, n > 0 is the n-th File object
    files,      \* the File objects created so far: "open" or "closed"
    pre,        \* handler and files as they were when the last call began
    fsops,      \* platform file calls issued by the last call, in order
    op,         \* the last call and its arguments
    result,     \* the exception the last call raised, "none" if it returned
    ret,        \* what the last call returned
    domain,     \* SpecGroup: the global domain every worker decomposes
    out         \* SpecGroup: per rank, the result of its decompose call

vars == <<comm, rank, typedict, handler, files, pre, fsops, op, result, ret,
          domain, out>>

---------------------------------------------------------------------------
(* Bounds of the model *)

MaxSize == 5
MaxLoad == 5
MaxOpens == 2

---------------------------------------------------------------------------
(* Python values *)

IntArg(n) == [t |-> "int", v |-> n]
FloatArg(n) == [t |-> "float", v |-> n]
NoneArg == [t |-> "none", v |-> 0]

Abs(n) == IF n < 0 THEN -n ELSE n

\* int(a / b): true division, then truncation toward zero (b # 0).  The
\* quotient is exact for the magnitudes of the model (below 2^53).
TruncDiv(a, b) ==
    IF (a >= 0) = (b > 0) THEN Abs(a) \div Abs(b) ELSE -(Abs(a) \div Abs(b))

NoBounds == [err |-> "none", low |-> 0, hi |-> 0]
Raise(e) == [NoBounds EXCEPT !.err = e]

\* Mutant: the shift by the non-remainder workers is left out.
split_work_noshift(load, workers, id) ==
    LET part == TruncDiv(load.v, workers.v)
        rem == load.v - part * workers.v
    IN IF id.v >= workers.v - rem
       THEN [err |-> "none", low |-> (part + 1) * id.v,
             hi |-> (part + 1) * (1 + id.v)]
       ELSE [err |-> "none", low |-> part * id.v, hi |-> part * (1 + id.v)]

\* Mutant: the remainder goes to the first rem workers (forward round robin).
split_work_forward(load, workers, id) ==
    LET part == TruncDiv(load.v, workers.v)
        rem == load.v - part * workers.v
    IN IF id.v < rem
       THEN [err |-> "none", low |-> (part + 1) * id.v,
             hi |-> (part + 1) * (1 + id.v)]
       ELSE [err |-> "none", low |-> part * id.v + rem,
             hi |-> part * (1 + id.v) + rem]

\* Decomposition.__split_work
split_work(load, workers, id) ==
    IF load.t # "int" THEN Raise("ValueError")
    ELSE IF workers.t # "int" THEN Raise("ValueError")
    ELSE IF id.t # "int" THEN Raise("ValueError")
    ELSE IF workers.v = 0 THEN Raise("ZeroDivisionError")
    ELSE LET part == TruncDiv(load.v, workers.v)
             rem == load.v - part * workers.v
         IN IF id.v >= workers.v - rem
            THEN [err |-> "none",
                  low |-> (part + 1) * id.v - (workers.v - rem),
                  hi |-> (part + 1) * (1 + id.v) - (workers.v - rem)]
            ELSE [err |-> "none", low |-> part * id.v,
                  hi |-> part * (1 + id.v)]

NoRet == [err |-> "none", sizes |-> <<>>, subsizes |-> <<>>, starts |-> <<>>]
Fail(e) == [NoRet EXCEPT !.err = e]
Zeros(n) == [i \in 1..n |-> 0]

\* Mutant: the guard rejects load = workers as well.
decompose_strict(self, dom, workers, id) ==
    LET dflt == workers.t = "none" \/ id.t = "none"
        w == IF dflt THEN IntArg(self.size) ELSE workers
        i == IF dflt THEN IntArg(self.rank) ELSE id
    IN IF Len(dom) = 0 THEN Fail("IndexError")
       ELSE IF dom[1] <= w.v THEN Fail("ValueError")
       ELSE LET b == split_work(IntArg(dom[1]), w, i)
            IN IF b.err # "none" THEN Fail(b.err)
               ELSE [err |-> "none", sizes |-> dom,
                     subsizes |-> [dom EXCEPT ![1] = b.hi - b.low],
                     starts |-> [Zeros(Len(dom)) EXCEPT ![1] = b.low]]

\* Decomposition.decompose: only the slowest index is split.
decompose(self, dom, workers, id) ==
    LET dflt == workers.t = "none" \/ id.t = "none"
        w == IF dflt THEN IntArg(self.size) ELSE workers
        i == IF dflt THEN IntArg(self.rank) ELSE id
    IN IF Len(dom) = 0 THEN Fail("IndexError")
       ELSE IF dom[1] < w.v THEN Fail("ValueError")
       ELSE LET b == split_work(IntArg(dom[1]), w, i)
            IN IF b.err # "none" THEN Fail(b.err)
               ELSE [err |-> "none", sizes |-> dom,
                     subsizes |-> [dom EXCEPT ![1] = b.hi - b.low],
                     starts |-> [Zeros(Len(dom)) EXCEPT ![1] = b.low]]

---------------------------------------------------------------------------
(* Communicators *)

Product(s) ==
    LET P[n \in 0..Len(s)] == IF n = 0 THEN 1 ELSE s[n] * P[n - 1]
    IN P[Len(s)]

\* MPI.Compute_dims(nnodes, ndims) for ndims <= 2: the most square
\* factorisation, in non-increasing order.
Compute_dims(nnodes, ndims) ==
    IF ndims = 1 THEN <<nnodes>>
    ELSE LET small == {d \in 1..nnodes : nnodes % d = 0 /\ d * d <= nnodes}
             b == CHOOSE d \in small : \A e \in small : e <= d
         IN <<nnodes \div b, b>>

\* Cartcomm.Get_coords(rank): row-major rank order over the topology.
Get_coords(topo, r) ==
    [d \in 1..Len(topo) |->
        (r \div Product(SubSeq(topo, d + 1, Len(topo)))) % topo[d]]

Topologies ==
    {t \in UNION {[1..n -> 1..MaxSize] : n \in 1..2} : Product(t) <= MaxSize}

Comms ==
    {[kind |-> "linear", size |-> n, topo |-> <<>>] : n \in 1..MaxSize}
    \cup {[kind |-> "cart", size |-> Product(t), topo |-> t] : t \in Topologies}

\* Decomposition.__init__ / Cartesian.__init__: the object's fields.
Construct(c, r) ==
    [size |-> c.size, rank |-> r,
     dims |-> IF c.kind = "cart" THEN Compute_dims(c.size, Len(c.topo))
              ELSE <<>>,
     coords |-> IF c.kind = "cart" THEN Get_coords(c.topo, r) ELSE <<>>]

\* Cartesian.decompose: one base-class split per axis of the grid.
Cartesian_decompose(self, dom) ==
    LET Step[n \in 0..Len(self.dims)] ==
            IF n = 0
            THEN [err |-> "none", sizes |-> dom, subsizes |-> dom,
                  starts |-> Zeros(Len(dom))]
            ELSE LET acc == Step[n - 1]
                 IN IF acc.err # "none" THEN acc
                    ELSE IF n > Len(dom) THEN Fail("IndexError")
                    ELSE LET r == decompose(self, <<dom[n]>>,
                                            IntArg(self.dims[n]),
                                            IntArg(self.coords[n]))
                         IN IF r.err # "none" THEN Fail(r.err)
                            ELSE [acc EXCEPT !.subsizes[n] = r.subsizes[1],
                                             !.starts[n] = r.starts[1]]
    IN Step[Len(self.dims)]

\* MpiIO.__init__ picks the decomposition by the communicator's kind;
\* this is self.decomposition.decompose(domain).
decomposition_decompose(c, r, dom) ==
    IF c.kind = "cart" THEN Cartesian_decompose(Construct(c, r), dom)
    ELSE decompose(Construct(c, r), dom, NoneArg, NoneArg)

Domains == UNION {[1..n -> 1..MaxLoad] : n \in 1..2}

NoOp == [name |-> "none", mode |-> 0, domain |-> <<>>, dtype |-> "",
         order |-> "", hoff |-> 0, workers |-> NoneArg, id |-> NoneArg]
NoPre == [handler |-> 0, files |-> <<>>]

---------------------------------------------------------------------------
(* SpecGroup: every worker of the group decomposes the same domain *)

NotCalled == Fail("notcalled")

InitGroup ==
    /\ comm \in Comms
    /\ domain \in Domains
    /\ out = [r \in 0..(comm.size - 1) |-> NotCalled]
    /\ rank = 0 /\ typedict = "_typedict" /\ handler = 0 /\ files = <<>>
    /\ pre = NoPre /\ fsops = <<>> /\ op = NoOp /\ result = "none"
    /\ ret = NoRet

WorkerDecompose(r) ==
    /\ out[r] = NotCalled
    /\ out' = [out EXCEPT ![r] = decomposition_decompose(comm, r, domain)]
    /\ UNCHANGED <<comm, rank, typedict, handler, files, pre, fsops, op,
                   result, ret, domain>>

NextGroup == \E r \in DOMAIN out : WorkerDecompose(r)

SpecGroup == InitGroup /\ [][NextGroup]_vars

Called(r) == out[r] # NotCalled
AllCalled == \A r \in DOMAIN out : Called(r)

\* The half-open range [low, high) a worker got on axis d.
Low(r, d) == out[r].starts[d]
High(r, d) == out[r].starts[d] + out[r].subsizes[d]

SumShares ==
    LET S[n \in 0..comm.size] ==
            IF n = 0 THEN 0 ELSE S[n - 1] + out[n - 1].subsizes[1]
    IN S[comm.size]

\* C1: for load >= workers > 0 the ranges the 1-D split gives ids
\* 0..workers-1 are contiguous, non-overlapping and gap-free: id 0 starts at
\* 0, each low is the previous high, the last high is load, every unit of
\* [0, load) lies in exactly one range and the sizes sum to load.
C1_SplitContiguous ==
    (comm.kind = "linear" /\ domain[1] >= comm.size) =>
        /\ \A r \in DOMAIN out : Called(r) =>
              /\ out[r].err = "none"
              /\ out[r].sizes = domain
              /\ (r = 0) => Low(r, 1) = 0
              /\ (r > 0 /\ Called(r - 1)) => Low(r, 1) = High(r - 1, 1)
              /\ (r = comm.size - 1) => High(r, 1) = domain[1]
        /\ AllCalled =>
              /\ \A u \in 0..(domain[1] - 1) :
                    Cardinality({r \in DOMAIN out :
                                    Low(r, 1) <= u /\ u < High(r, 1)}) = 1
              /\ SumShares = domain[1]

C1_Witness ==
    /\ comm.kind = "linear" /\ comm.size = 3 /\ domain[1] = 5
    /\ AllCalled
    /\ Low(2, 1) = 3 /\ High(2, 1) = 5

\* C9: for load >= workers > 0 the shares are non-decreasing in id and
\* differ by at most 1: with part = load div workers and rem = load mod
\* workers, exactly the ids workers-rem .. workers-1 get part+1 and all
\* lower ids get part.
C9_ReverseRoundRobin ==
    (comm.kind = "linear" /\ domain[1] >= comm.size) =>
        LET part == domain[1] \div comm.size
            rem == domain[1] % comm.size
        IN \A r \in DOMAIN out : Called(r) =>
              /\ out[r].err = "none"
              /\ out[r].subsizes[1] =
                    IF r >= comm.size - rem THEN part + 1 ELSE part
              /\ \A q \in DOMAIN out : (Called(q) /\ q < r) =>
                    /\ out[q].subsizes[1] <= out[r].subsizes[1]
                    /\ out[r].subsizes[1] - out[q].subsizes[1] <= 1

C9_Witness ==
    /\ comm.kind = "linear" /\ comm.size = 3 /\ domain[1] = 5
    /\ AllCalled
    /\ out[0].subsizes[1] = 1 /\ out[1].subsizes[1] = 2
    /\ out[2].subsizes[1] = 2

Points(dom) == {p \in [1..Len(dom) -> 0..(MaxLoad - 1)] :
                   \A d \in 1..Len(dom) : p[d] < dom[d]}
InBrick(p, r) == \A d \in 1..Len(p) : Low(r, d) <= p[d] /\ p[d] < High(r, d)

\* C2: for a Cartesian process group of any topology, the bricks that
\* decompose(domain) yields from the workers' own grid coordinates are
\* pairwise disjoint and cover every element of the global domain exactly
\* once.
C2_CartesianBricksTile ==
    (/\ comm.kind = "cart"
     /\ AllCalled
     /\ \A r \in DOMAIN out : out[r].err = "none") =>
        \A p \in Points(domain) :
            Cardinality({r \in DOMAIN out : InBrick(p, r)}) = 1

---------------------------------------------------------------------------
(* SpecSplit: one direct call of Decomposition.decompose on a fresh object; *)
(* the method reads no state but the object's size and rank.               *)

WorkerArgs ==
    {IntArg(n) : n \in -1..(MaxSize + 1)} \cup {NoneArg, FloatArg(2)}
IdArgs ==
    {IntArg(n) : n \in -1..(MaxSize + 1)} \cup {NoneArg, FloatArg(1)}

InitSplit ==
    /\ comm \in {c \in Comms : c.kind = "linear"}
    /\ rank \in 0..(comm.size - 1)
    /\ typedict = "_typedict" /\ handler = 0 /\ files = <<>>
    /\ pre = NoPre /\ fsops = <<>> /\ op = NoOp /\ result = "none"
    /\ ret = NoRet /\ domain = <<>> /\ out = <<>>

decompose_call(dom, workers, id) ==
    LET r == decompose(Construct(comm, rank), dom, workers, id)
    IN /\ op = NoOp
       /\ op' = [NoOp EXCEPT !.name = "decompose", !.domain = dom,
                             !.workers = workers, !.id = id]
       /\ result' = r.err
       /\ ret' = r
       /\ UNCHANGED <<comm, rank, typedict, handler, files, pre, fsops,
                      domain, out>>

NextSplit ==
    \E dom \in Domains, workers \in WorkerArgs, id \in IdArgs :
        decompose_call(dom, workers, id)

SpecSplit == InitSplit /\ [][NextSplit]_vars

\* The number of workers a decompose call splits among: the group size
\* when workers or id is left out.
EffWorkers ==
    IF op.workers.t = "none" \/ op.id.t = "none" THEN comm.size
    ELSE op.workers.v

\* C3: partitioning an axis of extent load among workers fails with
\* invalid-argument (ValueError) whenever load < workers, for every id, and
\* returns no partition; load = workers does not fail.
C3_TooFewUnitsFails ==
    op.name = "decompose" =>
        /\ op.domain[1] < EffWorkers =>
              result = "ValueError" /\ ret = Fail("ValueError")
        /\ (/\ op.domain[1] = EffWorkers
            /\ op.workers.t # "float" /\ op.id.t # "float") =>
              result = "none" /\ ret.sizes = op.domain

C3_Witness ==
    /\ op.name = "decompose" /\ op.domain = <<3>>
    /\ op.workers = IntArg(5) /\ op.id = IntArg(4)
    /\ result = "ValueError"

\* C4: a decompose call whose id lies outside [0, workers) fails with
\* invalid-argument (ValueError) instead of returning bounds.
C4_IdOutOfRangeFails ==
    (/\ op.name = "decompose"
     /\ op.workers.t = "int" /\ op.id.t = "int" /\ op.workers.v > 0
     /\ (op.id.v < 0 \/ op.id.v >= op.workers.v)) =>
        result = "ValueError"

---------------------------------------------------------------------------
(* Spec: one worker's MpiIO channel *)

\* mpi4py's access mode flags (the MPI standard's values).
MODE_RDONLY == 2
MODE_RDWR == 8
MODE_WRONLY == 4
MODE_CREATE == 1
MODE_EXCL == 64
MODE_DELETE_ON_CLOSE == 16
MODE_UNIQUE_OPEN == 32
MODE_SEQUENTIAL == 256
MODE_APPEND == 128

\* The keys of MpiIO.__check_file_mode's switcher.
switcher ==
    {MODE_RDONLY, MODE_RDWR, MODE_WRONLY, MODE_CREATE, MODE_EXCL,
     MODE_DELETE_ON_CLOSE, MODE_UNIQUE_OPEN, MODE_SEQUENTIAL, MODE_APPEND}

\* MpiIO.__check_file_mode: the exception it raises, "none" if it returns.
check_file_mode(mode) ==
    IF mode \notin switcher THEN "ValueError" ELSE "none"

\* MpiIO.__dtype_to_mpi: the exception it raises, "none" if it returns.
dtype_to_mpi(t, td) ==
    IF td \in {"_typedict", "__TypeDict__"}
    THEN IF t = "numpy" THEN "none" ELSE "KeyError"
    ELSE "ValueError"

\* str.upper() on the order flag.
Upper(order) ==
    IF order = "c" THEN "C" ELSE IF order = "f" THEN "F" ELSE order

\* A platform file call: which call, on a handle in which state.
FsOp(call, on, arg) == [call |-> call, on |-> on, arg |-> arg]

\* Datatype.Create_subarray accepts only a brick inside the global array.
ValidSubarray(d) ==
    \A i \in 1..Len(d.sizes) :
        /\ 1 <= d.subsizes[i] /\ d.subsizes[i] <= d.sizes[i]
        /\ 0 <= d.starts[i] /\ d.starts[i] <= d.sizes[i] - d.subsizes[i]

\* The bitwise or of a set of distinct flags.
Combine(S) ==
    LET RECURSIVE Sum(_)
        Sum(T) == IF T = {} THEN 0
                  ELSE LET f == CHOOSE x \in T : TRUE
                       IN f + Sum(T \ {f})
    IN Sum(S)

\* Mode values tried: no flag, each flag, create with each other flag, all
\* flags, and a value above every flag.
ModeInputs ==
    {0} \cup switcher
    \cup {Combine({MODE_CREATE, f}) : f \in switcher \ {MODE_CREATE}}
    \cup {Combine(switcher), 2 * MODE_SEQUENTIAL}
ChannelComms == {c \in Comms : c.size <= 2}
LoadDomains == {d \in Domains : \A i \in 1..Len(d) : d[i] <= 2}
Dtypes == {"numpy", "numpy_unmapped", "other"}
Orders == {"C", "c", "F"}
HeaderOffsets == {128}

Init ==
    /\ comm \in ChannelComms
    /\ rank \in 0..(comm.size - 1)
    /\ typedict \in {"_typedict", "__TypeDict__", "absent"}
    /\ handler = 0 /\ files = <<>>
    /\ pre = NoPre /\ fsops = <<>> /\ op = NoOp /\ result = "none"
    /\ ret = NoRet /\ domain = <<>> /\ out = <<>>

\* The end of a call: what it raised, the platform calls it issued, and the
\* handler and File objects it leaves.
Done(o, e, ops, h, f, r) ==
    /\ pre' = [handler |-> handler, files |-> files]
    /\ op' = o /\ result' = e /\ fsops' = ops /\ ret' = r
    /\ handler' = h /\ files' = f
    /\ UNCHANGED <<comm, rank, typedict, domain, out>>

\* MpiIO.file_open: File.Open may itself fail, and then nothing is assigned.
file_open(mode) ==
    LET o == [NoOp EXCEPT !.name = "file_open", !.mode = mode]
    IN /\ Len(files) < MaxOpens
       /\ IF check_file_mode(mode) # "none"
          THEN Done(o, check_file_mode(mode), <<>>, handler, files, NoRet)
          ELSE \/ Done(o, "none", <<FsOp("Open", "new", mode)>>,
                       Len(files) + 1, Append(files, "open"), NoRet)
               \/ Done(o, "MPIException", <<FsOp("Open", "new", mode)>>,
                       handler, files, NoRet)

\* MpiIO.load from line 37 on, on File object h of f, after the platform
\* calls ops0.  A call on a closed File is erroneous in MPI; mpi4py raises.
load_rest(h, f, ops0, dom, dtype, order, hoff) ==
    LET d == decomposition_decompose(comm, rank, dom)
        stop(e) == [err |-> e, ops |-> ops0, ret |-> NoRet]
    IN IF d.err # "none" THEN stop(d.err)
       ELSE IF dtype = "other" THEN stop("NotImplementedError")
       ELSE IF dtype_to_mpi(dtype, typedict) # "none"
            THEN stop(dtype_to_mpi(dtype, typedict))
       ELSE IF Upper(order) # "C" THEN stop("ValueError")
       ELSE IF ~ValidSubarray(d) THEN stop("MPIException")
       ELSE IF f[h] = "closed"
            THEN [err |-> "MPIException",
                  ops |-> Append(ops0, FsOp("Get_position", "closed", 0)),
                  ret |-> NoRet]
       ELSE [err |-> "none",
             ops |-> ops0 \o <<FsOp("Get_position", "open", 0),
                               FsOp("Set_view", "open", hoff),
                               FsOp("Read_all", "open", 0)>>,
             ret |-> d]

\* MpiIO.load
load(dom, dtype, order, hoff) ==
    LET o == [NoOp EXCEPT !.name = "load", !.domain = dom, !.dtype = dtype,
                          !.order = order, !.hoff = hoff]
        opened == <<FsOp("Open", "new", MODE_RDONLY)>>
    IN IF handler = 0
       THEN IF check_file_mode(MODE_RDONLY) # "none"
            THEN Done(o, check_file_mode(MODE_RDONLY), <<>>, handler, files,
                      NoRet)
            ELSE \/ LET h == Len(files) + 1
                        f == Append(files, "open")
                        r == load_rest(h, f, opened, dom, dtype, order, hoff)
                    IN Done(o, r.err, r.ops, h, f, r.ret)
                 \/ Done(o, "MPIException", opened, handler, files, NoRet)
       ELSE LET r == load_rest(handler, files, <<>>, dom, dtype, order, hoff)
            IN Done(o, r.err, r.ops, handler, files, r.ret)

\* Mutant: save opens the target for writing before it gives up.
save_creating(array, header) ==
    Done([NoOp EXCEPT !.name = "save", !.domain = array, !.dtype = header],
         "NotImplementedError",
         <<FsOp("Open", "new", MODE_CREATE + MODE_WRONLY)>>,
         handler, files, NoRet)

\* MpiIO.save
save(array, header) ==
    LET o == [NoOp EXCEPT !.name = "save", !.domain = array,
                          !.dtype = header]
    IN /\ o.name = "save"
       /\ Done(o, "NotImplementedError", <<>>, handler, files, NoRet)

\* MpiIO.file_close: the handler is kept, so a later close reaches the
\* closed File again.
file_close ==
    LET o == [NoOp EXCEPT !.name = "file_close"]
    IN IF handler = 0
       THEN Done(o, "AttributeError", <<>>, handler, files, NoRet)
       ELSE IF files[handler] = "open"
            THEN Done(o, "none", <<FsOp("Close", "open", 0)>>, handler,
                      [files EXCEPT ![handler] = "closed"], NoRet)
            ELSE Done(o, "MPIException", <<FsOp("Close", "closed", 0)>>,
                      handler, files, NoRet)

Next ==
    \/ \E mode \in ModeInputs : file_open(mode)
    \/ \E dom \in LoadDomains, dtype \in Dtypes, order \in Orders,
          hoff \in HeaderOffsets : load(dom, dtype, order, hoff)
    \/ \E array \in LoadDomains : save(array, "header")
    \/ file_close

Spec == Init /\ [][Next]_vars

\* Whether the channel was open when the last call began.
WasOpen == pre.handler # 0 /\ pre.files[pre.handler] = "open"

\* C5: a load with any order other than row-major, in any channel state,
\* fails with not-implemented and performs no file-system access.
C5_BadOrderNoFileAccess ==
    (op.name = "load" /\ Upper(op.order) # "C") =>
        result = "NotImplementedError" /\ fsops = <<>>

\* Whether a mode value is a combination of allow-listed flags.
IsCombination(mode) ==
    \E S \in SUBSET switcher : S # {} /\ Combine(S) = mode

\* C6: file_open accepts every allow-listed mode and every combination of
\* them, and rejects any other value with invalid-argument before any open
\* attempt, leaving the handle unchanged.
C6_ModeAllowList ==
    op.name = "file_open" =>
        IF IsCombination(op.mode)
        THEN result # "ValueError" /\ fsops = <<FsOp("Open", "new", op.mode)>>
        ELSE result = "ValueError" /\ fsops = <<>> /\ handler = pre.handler

\* C7: save always fails with not-implemented, in any channel state, and
\* neither touches the target file nor changes the channel's handle.
C7_SaveNotImplemented ==
    op.name = "save" =>
        /\ result = "NotImplementedError"
        /\ fsops = <<>>
        /\ handler = pre.handler /\ files = pre.files

C7_Witness ==
    /\ op.name = "save" /\ WasOpen
    /\ result = "NotImplementedError" /\ files[handler] = "open"

\* C8: a close issued while the channel is not open fails and does not call
\* close on the underlying file handle again.
C8_CloseOnlyWhenOpen ==
    (op.name = "file_close" /\ ~WasOpen) =>
        /\ result # "none"
        /\ \A i \in 1..Len(fsops) : fsops[i].call # "Close"

\* C10: a load on a channel that is not open first opens the file read-only,
\* so no platform call is ever issued on a closed handle.
C10_LoadReopens ==
    (op.name = "load" /\ ~WasOpen) =>
        /\ fsops # <<>>
        /\ fsops[1] = FsOp("Open", "new", MODE_RDONLY)
        /\ \A i \in 1..Len(fsops) : fsops[i].on # "closed"

=============================================================================
